---- MODULE Spec2Model ----
(***************************************************************************)
(* Block-manager salvage (src/block/block_slvg.c): __wt_block_salvage_start,*)
(* __wt_block_salvage_next and __wt_block_salvage_end over one WT_BLOCK.    *)
(* Offsets and sizes are in bytes.  The file is the description sector      *)
(* followed by allocation-size units; the first bytes of every unit are     *)
(* read as a WT_PAGE_DISK header (size, cksum, lsn).                        *)
(***************************************************************************)
EXTENDS Integers, Sequences, FiniteSets

\* ------------------------------------------------------------------ bounds
\* Largest file of an initial state, in 512-byte units after the sector.
MaxUnits == 3
\* How many collaborator calls (read, free, truncate, ...) may fail in a run.
MaxFaults == 1

\* --------------------------------------------------------------- constants
\* Size of the description sector at the head of the file.
WT_BLOCK_DESC_SECTOR == 512
\* Largest page size the btree layer accepts (scaled down to two 512-byte
\* units so that files of a few units exercise the test of line 109).
WT_BTREE_PAGE_SIZE_MAX == 1024
\* A non-zero error return of a collaborator, passed on by WT_RET.
WT_ERROR == 1

\* Allocation sizes a block file of the model is configured with.
AllocSizes == {512, 1024}

\* On-disk lengths of the initial states: shorter than, equal to and longer
\* than the description sector, with and without bytes trailing the last
\* 512-byte unit.
FileSizes ==
  {0, 300, WT_BLOCK_DESC_SECTOR} \cup
  {WT_BLOCK_DESC_SECTOR + 512 * k + r : k \in 0..MaxUnits, r \in {0, 100}}

\* What an allocation unit may begin with, read as a page header.  "good" is
\* whether the bytes at the unit, read for the header's size, match the
\* header's checksum and decompress.
Headers ==
  { [size |-> 0,    cksum |-> 10, lsn |-> 12, good |-> FALSE],
    [size |-> 700,  cksum |-> 20, lsn |-> 12, good |-> FALSE],
    [size |-> 1536, cksum |-> 30, lsn |-> 12, good |-> TRUE],
    [size |-> 512,  cksum |-> 40, lsn |-> 12, good |-> TRUE],
    [size |-> 512,  cksum |-> 50, lsn |-> 15, good |-> FALSE],
    [size |-> 1024, cksum |-> 60, lsn |-> 7,  good |-> TRUE],
    [size |-> 1024, cksum |-> 70, lsn |-> 9,  good |-> FALSE] }

\* block->lsn and block->slvg_off before Start: a handle just opened, and
\* one that carries an lsn and a cursor from earlier use.
InitialBlocks ==
  { [lsn |-> 0, slvg_off |-> 0], [lsn |-> 10, slvg_off |-> 2048] }

VARIABLES
  allocsize,   \* block->allocsize
  file_size,   \* block->fh->file_size
  disk,        \* the file past the sector: header of each allocsize unit
  desc,        \* the description sector: "stale" or "init" (__wt_desc_init)
  slvg_off,    \* block->slvg_off
  lsn,         \* block->lsn
  block_ok,    \* F_ISSET(block, WT_BLOCK_OK)
  freelist,    \* the block's free-list: set of <<offset, size>>
  phase,       \* caller's place in the pass: "closed", "scan", "ended"
  pc,          \* "idle", or "loop" inside __wt_block_salvage_next's for (;;)
  offset,      \* __wt_block_salvage_next's local offset
  op,          \* the call that returned last: "none","start","next","end"
  ret,         \* its return value
  eofp,        \* *eofp
  addr,        \* the address cookie written to addr, <<>> when none
  faults,      \* collaborator failures so far
  hist         \* history of the pass (not program state), see HistInit

vars == << allocsize, file_size, disk, desc, slvg_off, lsn, block_ok, freelist,
           phase, pc, offset, op, ret, eofp, addr, faults, hist >>

\* History kept for stating properties: the file size the last Start call
\* began with and its ftruncate calls (until the next call), the lsn it began
\* with; the log of the pass, one entry per page
\* returned ("page") and per unit freed ("free"), in order; the lsns of the
\* returned pages; the cursor
\* and lsn at the current Next call, the lsns of the headers that passed the
\* size test in it, its calls of __wt_read, __wt_block_read and
\* __wt_block_free, the units it skipped, and which call failed in it; the
\* success argument of End.
HistInit ==
  [ F0 |-> 0, lsn0 |-> 0, truncs |-> << >>, started |-> FALSE,
    log |-> << >>, page_lsns |-> {},
    call_off |-> 0, call_lsn |-> 0, call_seen |-> {},
    nread |-> 0, nvread |-> 0, nfree |-> 0, nskip |-> 0,
    err |-> "none", end |-> "none" ]

\* ------------------------------------------------------------ helpers
\* Number of whole allocation units past the description sector.
UnitsIn(fsz, alloc) ==
  IF fsz > WT_BLOCK_DESC_SECTOR THEN (fsz - WT_BLOCK_DESC_SECTOR) \div alloc
  ELSE 0

\* Index in disk of the unit that starts at byte offset off.
UnitOf(off) == (off - WT_BLOCK_DESC_SECTOR) \div allocsize + 1

\* Mutant: the length is rounded without taking the sector off first.
SalvageLenWholeFile(fsz, alloc) == (fsz \div alloc) * alloc

\* Mutant: the length is not rounded down, the file is left as it is.
SalvageLenNoRound(fsz, alloc) == fsz

\* Lines 27-29: the sector plus the whole allocation units of the file.
SalvageLen(fsz, alloc) ==
  ((fsz - WT_BLOCK_DESC_SECTOR) \div alloc) * alloc + WT_BLOCK_DESC_SECTOR

\* Mutant: the comparison of line 30 is inverted.
NeedTruncateInverted(fsz, alloc) ==
  fsz > WT_BLOCK_DESC_SECTOR /\ SalvageLen(fsz, alloc) = fsz

\* Lines 25 and 30: whether Start calls __wt_ftruncate.
NeedTruncate(fsz, alloc) ==
  fsz > WT_BLOCK_DESC_SECTOR /\ SalvageLen(fsz, alloc) # fsz

\* __wt_ftruncate on success: the handle's file_size becomes len.
wt_ftruncate(fsz, len) == len

\* Lines 25-32 when no call fails: the file size Start leaves.
TruncatedSize(fsz, alloc) ==
  IF NeedTruncate(fsz, alloc) THEN wt_ftruncate(fsz, SalvageLen(fsz, alloc))
  ELSE fsz

\* Line 98: __wt_read of one allocation unit at off succeeds only when the
\* unit lies inside the file (a short read is an error).
CanRead(off) ==
  /\ off >= WT_BLOCK_DESC_SECTOR
  /\ off + allocsize <= file_size
  /\ UnitOf(off) \in DOMAIN disk

\* The header the read of line 98 leaves in buf->mem.
HeaderAt(off) == disk[UnitOf(off)]

\* Mutant: the test against the maximum page size is missing.
SizeInsaneNoMax(size, off, max, alloc) ==
  \/ size = 0
  \/ size % alloc # 0
  \/ off + size > max

\* Lines 107-110: the size from the header cannot be a page's.
SizeInsane(size, off, max, alloc) ==
  \/ size = 0
  \/ size % alloc # 0
  \/ size > WT_BTREE_PAGE_SIZE_MAX
  \/ off + size > max

\* Mutant: the lsn is assigned without the comparison.
RaiseLsnAlways(cur, dsk_lsn) == dsk_lsn

\* Mutant: the comparison is inverted, the lsn can only be lowered.
RaiseLsnInverted(cur, dsk_lsn) == IF cur > dsk_lsn THEN dsk_lsn ELSE cur

\* Lines 126-127: the block's lsn after seeing a header with lsn dsk_lsn.
RaiseLsn(cur, dsk_lsn) == IF cur < dsk_lsn THEN dsk_lsn ELSE cur

\* Mutant: the lsn of the header is assigned whatever the header holds.
LsnAfterProbeAssign(cur, dsk, off, max, alloc) == dsk.lsn

\* Mutant: the lsn is raised after the verified read, for valid pages only.
LsnOnlyIfVerified(cur, dsk, off, max, alloc) ==
  IF SizeInsane(dsk.size, off, max, alloc) \/ ~dsk.good THEN cur
  ELSE RaiseLsn(cur, dsk.lsn)

\* Lines 107-127: block->lsn when the loop body reaches line 135 or skip.
LsnAfterProbe(cur, dsk, off, max, alloc) ==
  IF SizeInsane(dsk.size, off, max, alloc) THEN cur
  ELSE RaiseLsn(cur, dsk.lsn)

\* __wt_block_read of size bytes at off against cksum: succeeds when the
\* bytes there are a page of that size with that checksum.
wt_block_read(off, size, cksum) ==
  /\ CanRead(off)
  /\ off + size <= file_size
  /\ HeaderAt(off).good
  /\ HeaderAt(off).size = size
  /\ HeaderAt(off).cksum = cksum

\* Mutant: the result of __wt_block_read is ignored.
GarbageBySizeOnly(off, max, alloc) ==
  SizeInsane(HeaderAt(off).size, off, max, alloc)

\* Lines 105-135: the probe at off ends at the skip label.
IsGarbage(off, max, alloc) ==
  LET dsk == HeaderAt(off) IN
    \/ SizeInsane(dsk.size, off, max, alloc)
    \/ ~wt_block_read(off, dsk.size, dsk.cksum)

\* Mutant: the end-of-file test is strict.
AtEofStrict(off, max) == off > max

\* Line 89: the end-of-file test of the loop.
AtEof(off, max) == off >= max

\* Mutant: a skip trusts the size the header declares.
SkipDeclaredSize(off, alloc) ==
  off + (IF HeaderAt(off).size > 0 THEN HeaderAt(off).size ELSE alloc)

\* Mutant: a skip moves two units on.
SkipTwoUnits(off, alloc) == off + 2 * alloc

\* Line 146: the offset after skipping the unit at off.
SkipTo(off, alloc) == off + alloc

\* Mutant: a skip moves the local offset only.
SlvgOffStale(cur, newoff) == cur

\* Line 146: block->slvg_off follows the local offset at every skip.
SlvgOffAfterSkip(cur, newoff) == newoff

\* Mutant: the test of success is inverted.
EndFlagInverted(ok, success) == IF success THEN FALSE ELSE ok

\* Lines 59-60: WT_BLOCK_OK after End(success).
EndFlag(ok, success) == IF success THEN ok ELSE FALSE

\* Mutant: the cursor moves one unit past the start of a returned page.
PastPageOneUnit(off, size) == off + allocsize

\* Mutant: the cursor is left at the start of a returned page.
PastPageNoMove(off, size) == off

\* Mutant: the cursor is set to the size of the returned page.
PastPageSizeOnly(off, size) == size

\* Line 160: the offset after returning the page of size bytes at off.
PastPage(off, size) == off + size

\* __wt_block_addr_to_buffer: the cookie for (offset, size, cksum).
wt_block_addr_to_buffer(off, size, cksum) == << off, size, cksum >>

\* __wt_block_free: the free-list with the extent added.
wt_block_free(fl, off, size) == fl \cup { << off, size >> }

\* __wt_block_discard: the free-list is dropped.
wt_block_discard(fl) == {}

\* Mutant: End discards the free-list whatever success is.
EndFreelistAlways(fl, success) == wt_block_discard(fl)

\* Lines 59-62: the free-list after End(success).
EndFreelist(fl, success) == IF success THEN fl ELSE wt_block_discard(fl)

\* ---------------------------------------------------------------- Init
Init ==
  /\ allocsize \in AllocSizes
  /\ file_size \in FileSizes
  /\ disk \in [1..UnitsIn(file_size, allocsize) -> Headers]
  /\ desc = "stale"
  /\ \E b \in InitialBlocks : lsn = b.lsn /\ slvg_off = b.slvg_off
  /\ block_ok = TRUE
  /\ freelist = {}
  /\ phase = "closed"
  /\ pc = "idle"
  /\ offset = 0
  /\ op = "none"
  /\ ret = 0
  /\ eofp = 0
  /\ addr = << >>
  /\ faults = 0
  /\ hist = HistInit

\* ------------------------------------------------- __wt_block_salvage_start
\* A pass is Start, Next until the caller stops, End; a failed Start may be
\* tried again.
CanStart == pc = "idle" /\ phase \in {"closed", "failed"}

StartHist(tr) ==
  [ HistInit EXCEPT !.F0 = file_size, !.lsn0 = lsn, !.truncs = tr ]

TruncCalls ==
  IF NeedTruncate(file_size, allocsize)
  THEN << SalvageLen(file_size, allocsize) >> ELSE << >>

\* Line 31: __wt_ftruncate fails and WT_RET returns its error.
SalvageStartTruncFail ==
  /\ CanStart
  /\ NeedTruncate(file_size, allocsize)
  /\ faults < MaxFaults
  /\ faults' = faults + 1
  /\ hist' = StartHist(TruncCalls)
  /\ op' = "start" /\ ret' = WT_ERROR
  /\ phase' = "failed"
  /\ UNCHANGED << allocsize, file_size, disk, desc, slvg_off, lsn, block_ok,
                  freelist, pc, offset, eofp, addr >>

\* Mutant: the cursor is reset before __wt_desc_init is called.
SalvageStartDescFailCursorFirst ==
  /\ CanStart
  /\ faults < MaxFaults
  /\ faults' = faults + 1
  /\ file_size' = TruncatedSize(file_size, allocsize)
  /\ disk' = [ i \in 1..UnitsIn(file_size', allocsize) |-> disk[i] ]
  /\ slvg_off' = WT_BLOCK_DESC_SECTOR
  /\ hist' = StartHist(TruncCalls)
  /\ op' = "start" /\ ret' = WT_ERROR
  /\ phase' = "failed"
  /\ UNCHANGED << allocsize, desc, lsn, block_ok, freelist, pc, offset, eofp,
                  addr >>

\* Line 35: the file is truncated, __wt_desc_init fails.
SalvageStartDescFail ==
  /\ CanStart
  /\ faults < MaxFaults
  /\ faults' = faults + 1
  /\ file_size' = TruncatedSize(file_size, allocsize)
  /\ disk' = [ i \in 1..UnitsIn(file_size', allocsize) |-> disk[i] ]
  /\ hist' = StartHist(TruncCalls)
  /\ op' = "start" /\ ret' = WT_ERROR
  /\ phase' = "failed"
  /\ UNCHANGED << allocsize, desc, slvg_off, lsn, block_ok, freelist, pc,
                  offset, eofp, addr >>

\* Lines 25-45 with no failure.
SalvageStart ==
  /\ CanStart
  /\ file_size' = TruncatedSize(file_size, allocsize)
  /\ disk' = [ i \in 1..UnitsIn(file_size', allocsize) |-> disk[i] ]
  /\ desc' = "init"
  /\ slvg_off' = WT_BLOCK_DESC_SECTOR
  /\ hist' = [ StartHist(TruncCalls) EXCEPT !.started = TRUE ]
  /\ op' = "start" /\ ret' = 0
  /\ phase' = "scan"
  /\ UNCHANGED << allocsize, lsn, block_ok, freelist, pc, offset, eofp,
                  addr, faults >>

\* -------------------------------------------------- __wt_block_salvage_next
\* History at the start of a Next call: the record of the Start call is
\* dropped, the record of the Next call begins.
CallHist(err) ==
  [ hist EXCEPT !.F0 = 0, !.truncs = << >>,
                !.call_off = slvg_off, !.call_lsn = lsn, !.call_seen = {},
                !.nread = 0, !.nvread = 0, !.nfree = 0, !.nskip = 0,
                !.err = err ]

\* Lines 80-85: the call enters the loop.
SalvageNextCall ==
  /\ phase = "scan" /\ pc = "idle"
  /\ eofp' = 0
  /\ offset' = slvg_off
  /\ pc' = "loop"
  /\ hist' = CallHist("none")
  /\ UNCHANGED << allocsize, file_size, disk, desc, slvg_off, lsn, block_ok,
                  freelist, phase, op, ret, addr, faults >>

\* Line 85: __wt_buf_initsize fails and WT_RET returns its error.
SalvageNextInitFail ==
  /\ phase = "scan" /\ pc = "idle"
  /\ faults < MaxFaults
  /\ faults' = faults + 1
  /\ eofp' = 0
  /\ offset' = slvg_off
  /\ op' = "next" /\ ret' = WT_ERROR
  /\ hist' = CallHist("init")
  /\ UNCHANGED << allocsize, file_size, disk, desc, slvg_off, lsn, block_ok,
                  freelist, phase, pc, addr >>

\* Lines 89-92: the offset is at or past the end of the file.
SalvageNextEof ==
  /\ pc = "loop"
  /\ AtEof(offset, file_size)
  /\ eofp' = 1
  /\ op' = "next" /\ ret' = 0
  /\ pc' = "idle"
  /\ UNCHANGED << allocsize, file_size, disk, desc, slvg_off, lsn, block_ok,
                  freelist, phase, offset, addr, faults, hist >>

\* Line 98: __wt_read fails (an I/O error, or the unit is not whole).
SalvageNextReadFail ==
  /\ pc = "loop"
  /\ ~AtEof(offset, file_size)
  /\ \/ /\ CanRead(offset)
        /\ faults < MaxFaults
        /\ faults' = faults + 1
     \/ /\ ~CanRead(offset)
        /\ faults' = faults
  /\ op' = "next" /\ ret' = WT_ERROR
  /\ pc' = "idle"
  /\ hist' = [ hist EXCEPT !.nread = @ + 1, !.err = "read" ]
  /\ UNCHANGED << allocsize, file_size, disk, desc, slvg_off, lsn, block_ok,
                  freelist, phase, offset, eofp, addr >>

\* History after the probe of lines 98-135 at offset: one read, the lsn of a
\* header that passed the size test, one verified read of such a header.
ProbeHist(h) ==
  LET dsk == HeaderAt(offset)
      sane == ~SizeInsane(dsk.size, offset, file_size, allocsize)
  IN [ h EXCEPT !.nread = @ + 1,
                !.nvread = IF sane THEN @ + 1 ELSE @,
                !.call_seen = IF sane THEN @ \cup {dsk.lsn} ELSE @ ]

\* Lines 98-147: the unit at offset is garbage, it is freed and skipped.
SalvageNextSkip ==
  /\ pc = "loop"
  /\ ~AtEof(offset, file_size)
  /\ CanRead(offset)
  /\ IsGarbage(offset, file_size, allocsize)
  /\ lsn' = LsnAfterProbe(lsn, HeaderAt(offset), offset, file_size, allocsize)
  /\ freelist' = wt_block_free(freelist, offset, allocsize)
  /\ offset' = SkipTo(offset, allocsize)
  /\ slvg_off' = SlvgOffAfterSkip(slvg_off, offset')
  /\ hist' = [ ProbeHist(hist) EXCEPT
                 !.nfree = @ + 1, !.nskip = @ + 1,
                 !.log = Append(@, [kind |-> "free", off |-> offset,
                                    size |-> allocsize]) ]
  /\ UNCHANGED << allocsize, file_size, disk, desc, block_ok, phase, pc, op,
                  ret, eofp, addr, faults >>

\* Lines 98-145: the unit at offset is garbage and __wt_block_free fails.
SalvageNextFreeFail ==
  /\ pc = "loop"
  /\ ~AtEof(offset, file_size)
  /\ CanRead(offset)
  /\ IsGarbage(offset, file_size, allocsize)
  /\ faults < MaxFaults
  /\ faults' = faults + 1
  /\ lsn' = LsnAfterProbe(lsn, HeaderAt(offset), offset, file_size, allocsize)
  /\ op' = "next" /\ ret' = WT_ERROR
  /\ pc' = "idle"
  /\ hist' = [ ProbeHist(hist) EXCEPT !.nfree = @ + 1, !.err = "free" ]
  /\ UNCHANGED << allocsize, file_size, disk, desc, slvg_off, block_ok,
                  freelist, phase, offset, eofp, addr >>

\* Lines 98-135 and 151-162: the page at offset is valid and is returned.
SalvageNextPage ==
  /\ pc = "loop"
  /\ ~AtEof(offset, file_size)
  /\ CanRead(offset)
  /\ ~IsGarbage(offset, file_size, allocsize)
  /\ LET dsk == HeaderAt(offset) IN
       /\ lsn' = LsnAfterProbe(lsn, dsk, offset, file_size, allocsize)
       /\ addr' = wt_block_addr_to_buffer(offset, dsk.size, dsk.cksum)
       /\ slvg_off' = PastPage(offset, dsk.size)
       /\ hist' = [ ProbeHist(hist) EXCEPT
                      !.log = Append(@, [kind |-> "page", off |-> offset,
                                         size |-> dsk.size]),
                      !.page_lsns = @ \cup { dsk.lsn } ]
  /\ op' = "next" /\ ret' = 0
  /\ pc' = "idle"
  /\ UNCHANGED << allocsize, file_size, disk, desc, block_ok, freelist, phase,
                  offset, eofp, faults >>

\* --------------------------------------------------- __wt_block_salvage_end
\* Lines 59-63: End(success); the caller may end the pass after any return.
SalvageEnd(success) ==
  /\ pc = "idle" /\ phase \in {"scan", "failed"}
  /\ block_ok' = EndFlag(block_ok, success)
  /\ freelist' = EndFreelist(freelist, success)
  /\ op' = "end" /\ ret' = 0
  /\ phase' = "ended"
  /\ hist' = [ hist EXCEPT !.F0 = 0, !.truncs = << >>,
                           !.end = IF success THEN "ok" ELSE "fail" ]
  /\ UNCHANGED << allocsize, file_size, disk, desc, slvg_off, lsn, pc, offset,
                  eofp, addr, faults >>

SalvageEndOk == SalvageEnd(TRUE)

SalvageEndFail == SalvageEnd(FALSE)

\* ----------------------------------------------------------- specification
Next ==
  \/ SalvageStart
  \/ SalvageStartTruncFail
  \/ SalvageStartDescFail
  \/ SalvageNextCall
  \/ SalvageNextInitFail
  \/ SalvageNextEof
  \/ SalvageNextReadFail
  \/ SalvageNextSkip
  \/ SalvageNextFreeFail
  \/ SalvageNextPage
  \/ SalvageEndOk
  \/ SalvageEndFail

Spec == Init /\ [][Next]_vars

\* ------------------------------------------------------------ properties
\* The last call to return was __wt_block_salvage_next, and it returned ...
NextReturned == pc = "idle" /\ op = "next"
PageReturned == NextReturned /\ ret = 0 /\ eofp = 0
EofReturned == NextReturned /\ ret = 0 /\ eofp = 1
ErrorReturned == NextReturned /\ ret # 0

MaxOf(S) == CHOOSE m \in S : \A x \in S : x <= m

RECURSIVE SumSizes(_)
SumSizes(l) == IF l = << >> THEN 0 ELSE Head(l).size + SumSizes(Tail(l))

LogEntries(kind) == { i \in DOMAIN hist.log : hist.log[i].kind = kind }

\* The header of the file at the offset of log entry e.
LoggedHeader(e) == disk[(e.off - WT_BLOCK_DESC_SECTOR) \div allocsize + 1]

\* Bytes between the description sector and the end of the file.
ScanSpan ==
  IF file_size > WT_BLOCK_DESC_SECTOR THEN file_size - WT_BLOCK_DESC_SECTOR
  ELSE 0

RangesDisjoint ==
  \A i, j \in DOMAIN hist.log :
    i < j => \/ hist.log[i].off + hist.log[i].size <= hist.log[j].off
             \/ hist.log[j].off + hist.log[j].size <= hist.log[i].off

RangesInFile ==
  \A i \in DOMAIN hist.log :
    /\ hist.log[i].off >= WT_BLOCK_DESC_SECTOR
    /\ hist.log[i].off + hist.log[i].size <= file_size

\* C1: after Start, the ranges returned as pages and the units freed are
\* pairwise disjoint at every point (so no range is returned twice), and when
\* Next has reported end-of-file they lie inside the file and their sizes add
\* up to file_size - sector: they tile [sector, file_size) exactly.
C1_Tiling ==
  hist.started =>
    /\ RangesDisjoint
    /\ EofReturned => (RangesInFile /\ SumSizes(hist.log) = ScanSpan)

\* A scan that reached end-of-file after returning pages and freeing units.
C1_Witness ==
  /\ EofReturned
  /\ Len(hist.log) >= 3
  /\ LogEntries("page") # {}
  /\ LogEntries("free") # {}

\* The four size tests of the scan, stated on the header at a logged offset.
PlausibleAt(e) ==
  LET h == LoggedHeader(e) IN
    /\ h.size # 0
    /\ h.size % allocsize = 0
    /\ h.size <= WT_BTREE_PAGE_SIZE_MAX
    /\ e.off + h.size <= file_size

\* The lsns of the headers the scan probed that passed the size tests.
PlausibleLsns ==
  { LoggedHeader(hist.log[i]).lsn :
      i \in { j \in DOMAIN hist.log : PlausibleAt(hist.log[j]) } }

\* C2 as stated: at end-of-file block->lsn is the maximum of its value before
\* the scan and the lsns of the pages returned; garbage adds nothing.
C2_ValidPagesOnly ==
  EofReturned => lsn = MaxOf({hist.lsn0} \cup hist.page_lsns)

\* C2 amended: at end-of-file block->lsn is the maximum of its value before
\* the scan and the lsn of every probed header that passed the size tests,
\* whether its verified read succeeded or failed; headers that fail the size
\* tests add nothing, and with no header passing them the lsn is unchanged.
C2_PlausibleHeaders ==
  EofReturned => lsn = MaxOf({hist.lsn0} \cup PlausibleLsns)

\* End-of-file with the lsn above that of every returned page: raised by a
\* header whose verified read failed.
C2_Witness ==
  /\ EofReturned
  /\ lsn > MaxOf({hist.lsn0} \cup hist.page_lsns)
  /\ LogEntries("page") # {}

NoCallIO == hist.nread = 0 /\ hist.nvread = 0 /\ hist.nfree = 0

\* C3 as stated: Next reports end-of-file if and only if the cursor was at or
\* past file_size when it was called, and then makes no read, verified read
\* or free call (taken for the calls in which no collaborator fails).
C3_EofIffAtCall ==
  (NextReturned /\ hist.err = "none") =>
    /\ (ret = 0 /\ eofp = 1) <=> (hist.call_off >= file_size)
    /\ (ret = 0 /\ eofp = 1) => NoCallIO

\* C3 amended: a call made with the cursor at or past file_size, whose
\* scratch buffer is sized, reports end-of-file with no read, verified read
\* or free call; and a call reports end-of-file only with the cursor at or
\* past file_size on return: when the cursor was below file_size at the call,
\* every unit from it to the end of the file was read, freed and skipped in
\* the call.
C3_EofAtReturn ==
  NextReturned =>
    /\ (hist.call_off >= file_size /\ hist.err # "init")
         => (EofReturned /\ NoCallIO /\ slvg_off = hist.call_off)
    /\ EofReturned =>
         /\ slvg_off >= file_size
         /\ hist.call_off < file_size =>
              /\ hist.nskip * allocsize = file_size - hist.call_off
              /\ hist.nread = hist.nskip
              /\ hist.nfree = hist.nskip

\* End-of-file reported by a call that started below file_size.
C3_Witness ==
  /\ EofReturned
  /\ hist.call_off < file_size
  /\ hist.nskip >= 2

\* A step of the scan loop that probes the unit at offset, finds it garbage
\* (by the size tests or by the verified read) and frees it without failure.
GarbageProbeStep ==
  /\ pc = "loop"
  /\ ~AtEof(offset, file_size)
  /\ CanRead(offset)
  /\ \/ HeaderAt(offset).size = 0
     \/ HeaderAt(offset).size % allocsize # 0
     \/ HeaderAt(offset).size > WT_BTREE_PAGE_SIZE_MAX
     \/ offset + HeaderAt(offset).size > file_size
     \/ ~HeaderAt(offset).good
  /\ hist'.nread = hist.nread + 1
  /\ hist'.err = "none"

\* C4: every probe that finds garbage at offset o, whatever size its header
\* declares, adds exactly the unit <<o, allocsize>> to the free-list and to
\* the log, and leaves both the cursor and the probe offset at o + allocsize.
C4_SkipOneUnit ==
  [][ GarbageProbeStep =>
        /\ freelist' = freelist \cup { << offset, allocsize >> }
        /\ hist'.log = Append(hist.log, [kind |-> "free", off |-> offset,
                                         size |-> allocsize])
        /\ slvg_off' = offset + allocsize
        /\ offset' = offset + allocsize
        /\ pc' = "loop" ]_vars

\* Two units skipped in one call: the first declared two units and passed the
\* size tests but failed the verified read, and the cursor is one unit past
\* the second.
C4_Witness ==
  /\ pc = "loop"
  /\ allocsize = 512
  /\ hist.nskip = 2
  /\ Len(hist.log) = 2
  /\ LoggedHeader(hist.log[1]).size = 1024
  /\ PlausibleAt(hist.log[1])
  /\ hist.log[2].kind = "free"
  /\ slvg_off = hist.log[2].off + allocsize

\* C5: a Next call in which no collaborator call fails returns 0, and then
\* either reports end-of-file or returns a page: the cookie names the offset,
\* size and checksum of a header that passed the size tests and whose
\* verified read succeeds, and the page is the last entry of the log.
C5_NoErrorOnCorruption ==
  (NextReturned /\ hist.err = "none") =>
    /\ ret = 0
    /\ eofp \in {0, 1}
    /\ eofp = 0 =>
         /\ hist.log # << >>
         /\ LET e == hist.log[Len(hist.log)] IN
              /\ e.kind = "page"
              /\ PlausibleAt(e)
              /\ LoggedHeader(e).good
              /\ addr = << e.off, LoggedHeader(e).size, LoggedHeader(e).cksum >>
              /\ e.size = LoggedHeader(e).size

\* A call that met all kinds of garbage and still returned a page: it
\* skipped a header failing the size tests and one failing the verified read.
C5_Witness ==
  /\ PageReturned
  /\ hist.err = "none"
  /\ hist.nskip >= 2
  /\ hist.nvread >= 2
  /\ hist.nread > hist.nvread

\* Units of the file from offset a up to, not including, offset b.
UnitsBetween(a, b) ==
  { << a + k * allocsize, allocsize >> : k \in 0..((b - a) \div allocsize - 1) }

\* C6: when __wt_read or __wt_block_free fails while the call probes offset
\* o, Next returns the error with no end-of-file and the cursor equal to o;
\* the units the call skipped before are exactly those from the cursor at the
\* call up to o, they are on the free-list, and the unit at o is neither
\* freed, logged nor counted as skipped.
C6_ErrorLeavesCursor ==
  (NextReturned /\ hist.err \in {"read", "free"}) =>
    /\ ret # 0
    /\ eofp = 0
    /\ slvg_off = offset
    /\ slvg_off = hist.call_off + hist.nskip * allocsize
    /\ UnitsBetween(hist.call_off, slvg_off) \subseteq freelist
    /\ << offset, allocsize >> \notin freelist
    /\ \A i \in DOMAIN hist.log : hist.log[i].off < offset

\* A free call that failed after the same call had skipped a unit.
C6_Witness ==
  /\ NextReturned
  /\ hist.err = "free"
  /\ hist.nskip >= 1
  /\ slvg_off > hist.call_off

\* The steps by which a call in progress goes on when no collaborator fails.
SalvageNextStep == SalvageNextEof \/ SalvageNextSkip \/ SalvageNextPage

\* End called by a caller that scans the whole file first.
SalvageEndAtEof == EofReturned /\ (SalvageEndOk \/ SalvageEndFail)

\* End called by a caller whose Start failed.
SalvageEndNoScan == phase = "failed" /\ SalvageEndFail

\* The caller that keeps calling Next: it ends the pass only after
\* end-of-file (or when Start failed).
LiveNext ==
  \/ SalvageStart
  \/ SalvageStartTruncFail
  \/ SalvageStartDescFail
  \/ SalvageNextCall
  \/ SalvageNextInitFail
  \/ SalvageNextEof
  \/ SalvageNextReadFail
  \/ SalvageNextSkip
  \/ SalvageNextFreeFail
  \/ SalvageNextPage
  \/ SalvageEndAtEof
  \/ SalvageEndNoScan

\* Whether a call returns does not depend on block->lsn: the handle is new.
LiveInit == Init /\ lsn = 0

\* The code runs to its return (each loop iteration is straight-line code
\* over synchronous calls) and the caller calls Next again after every
\* return.  At most MaxFaults collaborator calls fail.
LiveSpec ==
  /\ LiveInit /\ [][LiveNext]_vars
  /\ WF_vars(SalvageNextStep)
  /\ WF_vars(SalvageNextCall)

\* C7: every loop iteration of Next that does not return moves the probe
\* offset up by allocsize and not past file_size, and from every state of the
\* scan, a call in progress included, a Next call that has returned
\* end-of-file is reached: every call returns and the caller that keeps
\* calling receives end-of-file.
C7_NextTerminates ==
  /\ [][ (pc = "loop" /\ pc' = "loop") =>
          (offset' = offset + allocsize /\ offset' <= file_size) ]_vars
  /\ (phase = "scan") ~> EofReturned

\* End-of-file reached by a call that went round the loop for every unit of
\* a three-unit file.
C7_Witness ==
  /\ EofReturned
  /\ hist.nskip = 3
  /\ hist.call_off = WT_BLOCK_DESC_SECTOR

\* C8: when Start has returned 0 on a file of F0 bytes with allocation size A,
\* file_size = sector + A * floor((F0 - sector) / A) when F0 > sector and
\* file_size = F0 otherwise; __wt_ftruncate was called, once and with that
\* length, exactly when F0 > sector and the length differs from F0.
C8_Truncation ==
  (pc = "idle" /\ op = "start" /\ ret = 0) =>
    LET F == hist.F0
        len == WT_BLOCK_DESC_SECTOR +
               allocsize * ((F - WT_BLOCK_DESC_SECTOR) \div allocsize)
    IN /\ F > WT_BLOCK_DESC_SECTOR  => file_size = len
       /\ F <= WT_BLOCK_DESC_SECTOR => file_size = F
       /\ hist.truncs =
            IF F > WT_BLOCK_DESC_SECTOR /\ len # F THEN << len >> ELSE << >>

\* A successful Start that cut a file of one and a half 1024-byte units back
\* to one unit.
C8_Witness ==
  /\ pc = "idle" /\ op = "start" /\ ret = 0
  /\ allocsize = 1024
  /\ hist.F0 = 2148
  /\ file_size = 1536
  /\ hist.truncs = << 1536 >>

\* C9: after End(success = false) WT_BLOCK_OK is clear and the free-list is
\* empty, from wherever in the pass End was called.
C9_FailedEnd ==
  (op = "end" /\ hist.end = "fail") => (~block_ok /\ freelist = {})

\* End(false) called after a Next call that freed units and then returned an
\* error.
C9_Witness ==
  /\ op = "end" /\ hist.end = "fail"
  /\ LogEntries("free") # {}
  /\ hist.err = "free"
  /\ ~block_ok

\* C10: between Start and End no step of Next or End lowers the cursor, and a
\* Next call that returns a page or skipped a unit returns with the cursor
\* above its value at the call.
C10_CursorMonotonic ==
  [][ /\ phase = "scan" => slvg_off' >= slvg_off
      /\ (pc' = "idle" /\ op' = "next" /\ phase' = "scan" /\
          ((ret' = 0 /\ eofp' = 0) \/ hist'.nskip > 0))
           => slvg_off' > hist'.call_off ]_vars

\* A page returned by a call that also skipped a unit.
C10_Witness ==
  /\ PageReturned
  /\ hist.nskip >= 1
  /\ slvg_off > hist.call_off + allocsize

\* ------------------------------------------------------- example scenario
\* Headers whose verified read is attempted at offset 1536 of a 2560-byte
\* file with 512-byte units, and fails.
BadChecksumHeaders ==
  { h \in Headers : ~h.good /\ h.size \in {512, 1024} }

\* The file of the example: allocation size 512, 2560 bytes (and the same
\* file with 100 trailing bytes, which Start cuts off), a good two-unit page
\* with lsn 7 at 512, whatever bytes in its second unit, a unit at 1536 that
\* fails checksum verification, a good one-unit page with lsn 12 at 2048.
ExampleInit ==
  /\ allocsize = 512
  /\ file_size \in {2560, 2660}
  /\ desc = "stale"
  /\ \E b \in InitialBlocks : lsn = b.lsn /\ slvg_off = b.slvg_off
  /\ block_ok = TRUE
  /\ freelist = {}
  /\ phase = "closed"
  /\ pc = "idle"
  /\ offset = 0
  /\ op = "none"
  /\ ret = 0
  /\ eofp = 0
  /\ addr = << >>
  /\ faults = 0
  /\ hist = HistInit
  /\ disk \in [1..4 -> Headers]
  /\ disk[1] = [size |-> 1024, cksum |-> 60, lsn |-> 7, good |-> TRUE]
  /\ disk[3] \in BadChecksumHeaders
  /\ disk[4] = [size |-> 512, cksum |-> 40, lsn |-> 12, good |-> TRUE]

ExampleSpec == ExampleInit /\ [][Next]_vars

ExamplePage1 == [kind |-> "page", off |-> 512, size |-> 1024]
ExampleFree == [kind |-> "free", off |-> 1536, size |-> 512]
ExamplePage2 == [kind |-> "page", off |-> 2048, size |-> 512]

\* What the calls of the example return when no collaborator call fails: the
\* call at cursor 512 the page (512, 1024), the call at cursor 1536 the page
\* (2048, 512) after freeing [1536, 2048), the call at cursor 2560
\* end-of-file without I/O.
ExampleTrace ==
  (NextReturned /\ faults = 0) =>
    /\ ret = 0
    /\ file_size = 2560
    /\ hist.call_off \in {512, 1536, 2560}
    /\ hist.call_off = 512 =>
         /\ eofp = 0 /\ addr = << 512, 1024, 60 >>
         /\ hist.log = << ExamplePage1 >>
         /\ hist.nskip = 0 /\ freelist = {}
         /\ slvg_off = 1536
    /\ hist.call_off = 1536 =>
         /\ eofp = 0 /\ addr = << 2048, 512, 40 >>
         /\ hist.log = << ExamplePage1, ExampleFree, ExamplePage2 >>
         /\ hist.nskip = 1 /\ freelist = { << 1536, 512 >> }
         /\ slvg_off = 2560
    /\ hist.call_off = 2560 =>
         /\ eofp = 1
         /\ hist.log = << ExamplePage1, ExampleFree, ExamplePage2 >>
         /\ NoCallIO /\ freelist = { << 1536, 512 >> }
         /\ slvg_off = 2560

\* C11 as stated: the trace of the example, and block->lsn = 12 at
\* end-of-file.
C11_ExampleLsn12 ==
  /\ ExampleTrace
  /\ (EofReturned /\ faults = 0) => lsn = 12

\* C11 amended: the trace of the example, and at end-of-file block->lsn is
\* the largest of its value before the scan, 12, and the lsn in the header of
\* the unit at 1536, which passed the size tests before its checksum failed.
C11_Example ==
  /\ ExampleTrace
  /\ (EofReturned /\ faults = 0) =>
       lsn = MaxOf({hist.lsn0, 7, 12, disk[3].lsn})

\* The example run to end-of-file with the lsn at 12.
C11_Witness ==
  /\ EofReturned /\ faults = 0
  /\ hist.log = << ExamplePage1, ExampleFree, ExamplePage2 >>
  /\ hist.lsn0 = 0
  /\ lsn = 12

\* ------------------------------------------------------------ C12 .. C20
\* The log entries whose range holds byte offset u.
Covering(u) ==
  { i \in DOMAIN hist.log :
      hist.log[i].off <= u /\ u < hist.log[i].off + hist.log[i].size }

\* C12: after Start, every allocation unit from the sector up to the cursor
\* lies in exactly one range of the log (a page returned or a unit freed),
\* and no range of the log reaches past the cursor.
C12_Classified ==
  hist.started =>
    /\ slvg_off >= WT_BLOCK_DESC_SECTOR
    /\ \A k \in 0..((slvg_off - WT_BLOCK_DESC_SECTOR) \div allocsize - 1) :
         Cardinality(Covering(WT_BLOCK_DESC_SECTOR + k * allocsize)) = 1
    /\ \A i \in DOMAIN hist.log :
         hist.log[i].off + hist.log[i].size <= slvg_off

\* Between two calls in mid-scan: a unit freed and a page returned below the
\* cursor, units not yet probed above it.
C12_Witness ==
  /\ PageReturned
  /\ Len(hist.log) = 2
  /\ hist.log[1].kind = "free"
  /\ slvg_off < file_size

\* The step by which a Next call returns a page.
PageReturnStep ==
  pc = "loop" /\ pc' = "idle" /\ op' = "next" /\ ret' = 0 /\ eofp' = 0

\* C13: the step that returns the page probed at offset o writes the cookie
\* of (o, size, cksum) with size and cksum as the header at o holds them,
\* and leaves the cursor at o + size, from where the next call starts.
C13_SuccessStep ==
  [][ PageReturnStep =>
        /\ addr' = << offset, HeaderAt(offset).size, HeaderAt(offset).cksum >>
        /\ slvg_off' = offset + HeaderAt(offset).size
        /\ offset' = offset ]_vars

\* A two-unit page returned from offset 1024 after a skip: cookie and cursor.
C13_Witness ==
  /\ PageReturned
  /\ hist.nskip = 1
  /\ addr = << 1024, 1024, 60 >>
  /\ slvg_off = 2048

\* The four size conditions on the header at the probe offset.
StructurallyPlausible(h, off) ==
  /\ h.size # 0
  /\ h.size % allocsize = 0
  /\ h.size <= WT_BTREE_PAGE_SIZE_MAX
  /\ off + h.size <= file_size

\* C14: a step makes a verified read only of a header that meets the four
\* size conditions, and a step that returns a page returns one that meets
\* them and lies between the sector and the end of the file.
C14_ValidationGates ==
  [][ /\ hist'.nvread = hist.nvread + 1
           => StructurallyPlausible(HeaderAt(offset), offset)
      /\ PageReturnStep =>
           /\ StructurallyPlausible(HeaderAt(offset), offset)
           /\ addr'[1] >= WT_BLOCK_DESC_SECTOR
           /\ addr'[1] + addr'[2] <= file_size
           /\ addr'[2] # 0 /\ addr'[2] % allocsize = 0
           /\ addr'[2] <= WT_BTREE_PAGE_SIZE_MAX ]_vars

\* A page returned by a call that read three headers and made a verified
\* read of the last one only.
C14_Witness ==
  /\ PageReturned
  /\ hist.nread = 3
  /\ hist.nvread = 1

\* C15: with the cursor at or past file_size, no step of a Next call changes
\* the cursor, the lsn, WT_BLOCK_OK, the free-list or the file, and the call
\* that has entered the loop returns end-of-file: every further call does
\* the same.
C15_EofFrame ==
  [][ (phase = "scan" /\ phase' = "scan" /\ slvg_off >= file_size) =>
        /\ UNCHANGED << slvg_off, lsn, block_ok, freelist, file_size, disk >>
        /\ hist'.log = hist.log
        /\ pc = "loop" =>
             (pc' = "idle" /\ op' = "next" /\ ret' = 0 /\ eofp' = 1)
        /\ (pc = "loop" /\ hist.call_off >= file_size) =>
             (hist'.nread = 0 /\ hist'.nfree = 0) ]_vars

\* End-of-file returned by a call that was made with the cursor at the end
\* of a file that held a page and a freed unit.
C15_Witness ==
  /\ EofReturned
  /\ hist.call_off >= file_size
  /\ NoCallIO
  /\ Len(hist.log) >= 2
  /\ freelist # {}

\* C16: no step of Start, Next or End(TRUE) lowers block->lsn, and the step
\* that returns a page leaves it at or above the lsn in the page's header.
C16_LsnMonotonic ==
  [][ /\ hist'.end # "fail" => lsn' >= lsn
      /\ PageReturnStep => lsn' >= HeaderAt(offset).lsn ]_vars

\* A page with lsn 7 returned with block->lsn still at the 10 it had before.
C16_Witness ==
  /\ PageReturned
  /\ hist.page_lsns = {7}
  /\ hist.lsn0 = 10
  /\ lsn = 10

\* A step of __wt_block_salvage_start, whatever its outcome.
StartStep == CanStart /\ phase' \in {"scan", "failed"}

\* The failing step of Start is the one of __wt_ftruncate: a truncation was
\* due and the file has the size it had.
TruncateFailed ==
  /\ ret' # 0
  /\ NeedTruncate(file_size, allocsize)
  /\ file_size' = file_size

\* C17: Start truncates, then re-initializes the descriptor, then sets the
\* cursor. When the truncation fails the descriptor is not re-initialized
\* and the cursor is not touched; when the re-initialization fails the file
\* is already truncated and the cursor is not touched; when Start succeeds
\* the cursor is the sector size whatever it was and whatever the file size.
C17_StartOrder ==
  [][ StartStep =>
        /\ ret' = 0 =>
             /\ file_size' = TruncatedSize(file_size, allocsize)
             /\ desc' = "init"
             /\ slvg_off' = WT_BLOCK_DESC_SECTOR
        /\ ret' # 0 => slvg_off' = slvg_off
        /\ TruncateFailed => desc' = desc
        /\ (ret' # 0 /\ ~TruncateFailed) =>
             file_size' = TruncatedSize(file_size, allocsize) ]_vars

\* Start fails at the truncation, is made again and succeeds on a block
\* whose cursor was 2048: the file is truncated, the cursor is the sector.
C17_Witness ==
  /\ pc = "idle" /\ op = "start" /\ ret = 0
  /\ faults = 1
  /\ hist.truncs # << >>
  /\ hist.lsn0 = 10
  /\ desc = "init"
  /\ slvg_off = WT_BLOCK_DESC_SECTOR

\* A step of __wt_block_salvage_end.
EndStep == phase # "ended" /\ phase' = "ended"

\* C18: End returns 0 whatever success is, and End(TRUE) leaves WT_BLOCK_OK,
\* the cursor, the lsn and the free-list (no discard) as they were.
C18_EndNoOp ==
  [][ EndStep =>
        /\ op' = "end" /\ ret' = 0
        /\ hist'.end = "ok" =>
             UNCHANGED << block_ok, slvg_off, lsn, freelist, file_size,
                          desc >> ]_vars

\* End(TRUE) returned on a scan that had freed units: they are still free.
C18_Witness ==
  /\ op = "end" /\ ret = 0
  /\ hist.end = "ok"
  /\ block_ok
  /\ freelist # {}
  /\ hist.log # << >>

\* A step that read the header at offset and went on to classify it.
ProbeStep ==
  pc = "loop" /\ hist'.nread = hist.nread + 1 /\ hist'.err # "read"

\* C19: a probe raises block->lsn to the lsn of a header that meets the four
\* size conditions, whether the verified read then succeeds or not, and
\* leaves it alone for any other header; no other step of Next changes it,
\* so when a call returns the lsn is the largest of its value at the call
\* and the lsns of the plausible headers the call probed.
C19_WatermarkBeforeVerify ==
  /\ [][ /\ ProbeStep =>
              lsn' = IF StructurallyPlausible(HeaderAt(offset), offset)
                     THEN MaxOf({lsn, HeaderAt(offset).lsn})
                     ELSE lsn
         /\ (phase' = "scan" /\ phase = "scan" /\ ~ProbeStep) => lsn' = lsn
       ]_vars
  /\ [](NextReturned => lsn = MaxOf({hist.call_lsn} \cup hist.call_seen))

\* A call that returned end-of-file without ever returning a page, with the
\* lsn raised to the 15 of a plausible header that failed its checksum.
C19_Witness ==
  /\ EofReturned
  /\ hist.page_lsns = {}
  /\ hist.call_lsn < 15
  /\ lsn = 15

\* Equal to the descriptor sector modulo the allocation size.
Aligned(off) == (off - WT_BLOCK_DESC_SECTOR) % allocsize = 0

\* C20: after a successful Start on a file of at least the sector, the file
\* past the sector is whole allocation units, the cursor, every probed
\* offset and every logged offset are aligned, and the cursor and the probe
\* offset lie between the sector and file_size.
C20_Alignment ==
  (hist.started /\ file_size >= WT_BLOCK_DESC_SECTOR) =>
    /\ Aligned(file_size)
    /\ Aligned(slvg_off)
    /\ WT_BLOCK_DESC_SECTOR <= slvg_off /\ slvg_off <= file_size
    /\ (pc = "loop" \/ op = "next") =>
         /\ Aligned(offset)
         /\ WT_BLOCK_DESC_SECTOR <= offset /\ offset <= file_size
    /\ \A i \in DOMAIN hist.log : Aligned(hist.log[i].off)

\* The loop at the end of a file of 1024-byte units after a skip: the probe
\* offset and the cursor are file_size.
C20_Witness ==
  /\ pc = "loop"
  /\ allocsize = 1024
  /\ hist.nskip >= 1
  /\ file_size > WT_BLOCK_DESC_SECTOR
  /\ offset = file_size
  /\ slvg_off = file_size

====
